---------------------------- MODULE Spec2Model ----------------------------
(***************************************************************************)
(* Model of src/process/parse_doc_direct.py: the extraction of the data of *)
(* an "arrete de peril" from its page texts (extract_adresses_commune,     *)
(* parse_arrete) and the batch loop that fills the four output tables      *)
(* (process_files).                                                        *)
(*                                                                         *)
(* A page text is represented by what the imported functions return on it: *)
(* whether it is empty or matches P_ACCUSE, the spans and the body that    *)
(* parse_arrete_pages finds, and the result of every detector on the body. *)
(***************************************************************************)
EXTENDS Integers, Sequences, FiniteSets, TLC

\* Bounds of the model.
MaxPages == 2
MaxFiles == 2

\* Python's None.
None == "None"

\* ------------------------------------------------------------------------
\* Imported functions (src.utils, src.domain_knowledge, src.process.*).
\* ------------------------------------------------------------------------

\* normalize_string: case and accents are folded.
normalize_string(s) ==
    CASE s = "Dupont" -> "dupont"
      [] s = "DUPONT" -> "dupont"
      [] s = "Martin" -> "martin"
      [] s = "Foncia" -> "foncia"
      [] s = "Immo Sud" -> "immo sud"
      [] s = "MARSEILLE" -> "marseille"
      [] s = "Marseille" -> "marseille"
      [] s = "Aix-en-Provence" -> "aix-en-provence"
      [] s = "Lyon" -> "lyon"
      [] s = "N 2020-17" -> "n 2020-17"
      [] s = "N 2021-03" -> "n 2021-03"
      [] s = "Arrete de PERIL" -> "arrete de peril"
      [] s = "Arrete de mainlevee" -> "arrete de mainlevee"
      [] OTHER -> s

\* process_date_brute: a date as written in the text, as dd/mm/yyyy.
process_date_brute(s) ==
    CASE s = "1er mars 2020" -> "01/03/2020"
      [] s = "2 MARS 2020" -> "02/03/2020"
      [] s = "9 mai 2021" -> "09/05/2021"
      [] OTHER -> s

\* determine_commune: the commune of the address, else the one of the
\* authority that takes the order.
determine_commune(adr_ville, commune_maire) ==
    IF adr_ville # None THEN adr_ville ELSE commune_maire

\* get_codeinsee: the INSEE code of the commune; the arrondissement for
\* Marseille when the postal code gives it; an assertion fails for a commune
\* outside the Metropole.
get_codeinsee(ville, cpostal) ==
    CASE ville = None -> None
      [] normalize_string(ville) = "marseille" ->
            IF cpostal = "13001" THEN "13201" ELSE "13055"
      [] normalize_string(ville) = "aix-en-provence" -> "13001"
      [] OTHER -> "AssertionError"

\* get_codepostal: the postal code from the INSEE code; there is none to
\* derive for Aix-en-Provence.
get_codepostal(ville, codeinsee) ==
    CASE codeinsee = "13201" -> "13001"
      [] codeinsee = "13055" -> "13000"
      [] OTHER -> None

\* The check of coherence made by create_adresse_normalisee: the postal code
\* belongs to the commune.
AdresseCoherente(cpostal, ville) ==
    \/ cpostal = None
    \/ ville = None
    \/ /\ normalize_string(ville) = "marseille"
       /\ cpostal \in {"13000", "13001"}
    \/ /\ normalize_string(ville) = "aix-en-provence"
       /\ cpostal \in {"13090", "13100"}

\* create_adresse_normalisee: the fields that are present, joined.
create_adresse_normalisee(num, ind, voie, compl, cpostal, ville) ==
    LET part(x) == IF x = None THEN "" ELSE x \o " "
    IN  part(num) \o part(ind) \o part(voie) \o part(compl)
            \o part(cpostal) \o (IF ville = None THEN "" ELSE ville)

\* The part of a cadastral reference that generate_refcadastrale_norm keeps
\* of the text: section and number, the number padded.
RefBrute(s) ==
    CASE s = "AB 12" -> "AB0012"
      [] s = "AB0012" -> "AB0012"
      [] s = "section CD n 7" -> "CD0007"
      [] OTHER -> s

\* generate_refcadastrale_norm: the code of the commune (the arrondissement
\* from the postal code when the INSEE code is the one of Marseille), then
\* section and number.
generate_refcadastrale_norm(codeinsee, refcad, fn_pdf, cpostal) ==
    LET code == CASE codeinsee = None -> "?????"
                  [] codeinsee = "13055" /\ cpostal = "13001" -> "13201"
                  [] OTHER -> codeinsee
    IN  code \o RefBrute(refcad)

\* ------------------------------------------------------------------------
\* Page texts.
\* ------------------------------------------------------------------------

\* A body on which no detector finds anything.
CorpsSimple ==
    [text |-> TRUE, adr |-> <<>>,
     classe |-> None, urgence |-> None, demo |-> None, int_hab |-> None,
     equ_com |-> None, proprio |-> None, syndic |-> None, gest |-> None,
     parcelle |-> None]

\* The empty string as a body.
CorpsVide == [CorpsSimple EXCEPT !.text = FALSE]

\* One address of a zone, as get_adr_doc returns it.
Adr(num, voie, cpostal, ville) ==
    [adr_num |-> num, adr_ind |-> None, adr_voie |-> voie,
     adr_compl |-> None, adr_cpostal |-> cpostal, adr_ville |-> ville]

Zone(brute, adrs) == [adresse_brute |-> brute, adresses |-> adrs]

Span(typ, txt) == [span_typ |-> typ, span_txt |-> txt]

\* An empty page.
PgVide == [txt |-> "", content |-> <<>>, body |-> CorpsVide]

\* A page of "accuse de reception" (P_ACCUSE matches it); the detectors
\* would find data on it.
PgAccuse ==
    [txt |-> "AR",
     content |-> <<Span("arr_date", "9 mai 2021"), Span("num_arr", "N 2021-03")>>,
     body |-> [CorpsSimple EXCEPT
                 !.adr = <<Zone("3 cours Mirabeau 13100 Aix-en-Provence",
                                <<Adr("3", "cours Mirabeau", "13100", "Aix-en-Provence")>>)>>,
                 !.classe = "mainlevee", !.urgence = "oui", !.demo = "oui",
                 !.proprio = "Martin", !.syndic = "Foncia",
                 !.parcelle = "section CD n 7"]]

\* A title page: spans, and a body without any marker.
PgTitre ==
    [txt |-> "T",
     content |-> <<Span("adr_ville", "MARSEILLE"), Span("num_arr", "N 2020-17"),
                   Span("arr_date", "1er mars 2020"),
                   Span("nom_arr", "Arrete de PERIL")>>,
     body |-> CorpsSimple]

\* A page whose text is all in spans: the body is empty.
PgSansCorps ==
    [txt |-> "T",
     content |-> <<Span("nom_arr", "Arrete de mainlevee")>>,
     body |-> CorpsVide]

PgUrgence ==
    [txt |-> "T",
     content |-> <<Span("par_vu", "Vu le code"), Span("arr_date", "2 MARS 2020")>>,
     body |-> [CorpsSimple EXCEPT
                 !.classe = "peril", !.urgence = "oui",
                 !.proprio = "Dupont", !.parcelle = "AB 12"]]

PgDemo ==
    [txt |-> "T",
     content |-> <<>>,
     body |-> [CorpsSimple EXCEPT
                 !.urgence = "non", !.demo = "oui", !.int_hab = "oui",
                 !.equ_com = "non",
                 !.proprio = "DUPONT", !.syndic = "Foncia",
                 !.parcelle = "AB0012"]]

\* Two zones; the first one unfolds into two addresses ("12 - 14 rue X").
PgAdr ==
    [txt |-> "T",
     content |-> <<>>,
     body |-> [CorpsSimple EXCEPT
                 !.adr = <<Zone("12 - 14 rue X 13001 Marseille",
                                <<Adr("12", "rue X", "13001", "Marseille"),
                                  Adr("14", "rue X", "13001", "Marseille")>>),
                           Zone("5 rue Y 13090 Aix-en-Provence",
                                <<Adr("5", "rue Y", "13090", "Aix-en-Provence")>>)>>,
                 !.proprio = "Martin", !.gest = "Immo Sud",
                 !.parcelle = "AB0012"]]

\* An address without postal code, in Aix-en-Provence.
PgAdrAix ==
    [txt |-> "T",
     content |-> <<>>,
     body |-> [CorpsSimple EXCEPT
                 !.adr = <<Zone("8 rue Z Aix-en-Provence",
                                <<Adr("8", "rue Z", None, "Aix-en-Provence")>>)>>,
                 !.classe = "peril"]]

\* An address without commune nor postal code.
PgAdrSansVille ==
    [txt |-> "T",
     content |-> <<>>,
     body |-> [CorpsSimple EXCEPT
                 !.adr = <<Zone("21 bd W", <<Adr("21", "bd W", None, None)>>)>>,
                 !.parcelle = "section CD n 7"]]

\* A zone out of which no address is extracted.
PgZoneVide ==
    [txt |-> "T",
     content |-> <<>>,
     body |-> [CorpsSimple EXCEPT
                 !.adr = <<Zone("immeuble sis a l'angle", <<>>)>>,
                 !.gest = "Immo Sud"]]

\* An address in a commune outside the Metropole.
PgAdrLyon ==
    [txt |-> "T",
     content |-> <<>>,
     body |-> [CorpsSimple EXCEPT
                 !.adr = <<Zone("1 rue V 69001 Lyon",
                                <<Adr("1", "rue V", "69001", "Lyon")>>)>>,
                 !.int_hab = "oui"]]

\* An address whose postal code is not one of its commune.
PgAdrIncoh ==
    [txt |-> "T",
     content |-> <<>>,
     body |-> [CorpsSimple EXCEPT
                 !.adr = <<Zone("6 rue U 13090 Marseille",
                                <<Adr("4", "rue U", None, "Marseille"),
                                  Adr("6", "rue U", "13090", "Marseille")>>)>>,
                 !.syndic = "Foncia"]]

PageTexts ==
    {PgVide, PgAccuse, PgTitre, PgSansCorps, PgUrgence, PgDemo, PgAdr,
     PgAdrAix, PgAdrSansVille, PgZoneVide, PgAdrLyon, PgAdrIncoh}

\* The texts of at most n pages.
DocsUpTo(n) == UNION {[1..k -> PageTexts] : k \in 0..n}

\* The documents of the batches of several files.
BatchDocs ==
    {<<PgVide>>, <<PgTitre, PgAdr>>, <<PgUrgence, PgAdrIncoh>>,
     <<PgAccuse, PgAdrLyon>>}


\* A file of the batch: a PDF, and the pages of its text file when it has one.
FilesOf(docs) ==
    {[has_txt |-> TRUE, pages |-> d] : d \in docs}
        \cup {[has_txt |-> FALSE, pages |-> <<>>]}

\* ------------------------------------------------------------------------
\* State.
\* ------------------------------------------------------------------------
VARIABLES
    fps,                \* the PDF files, sorted, each with its text file
    i,                  \* process_files: position in fps (from 1)
    pc,                 \* where the program is
    err,                \* the exception that ended the program, if any
    out_files,          \* the CSV files written
    rows_adresse, rows_arrete, rows_notifie, rows_parcelle,
    doc_data,           \* what parse_arrete returned
    pages,              \* parse_arrete: the pages loaded
    doc_content,        \* parse_arrete: the result of parse_arrete_pages
    adr_commune_maire,
    adresses, arretes, notifies, parcelles,
    codeinsee, cpostal,
    pg,                 \* parse_arrete: position in pages_body (from 1)
    parsed,             \* history: the files parse_arrete was called on
    called              \* history: classifier and detectors called by the
                        \* current call of parse_arrete

locals ==
    <<pages, doc_content, adr_commune_maire, adresses, arretes, notifies,
      parcelles, codeinsee, cpostal, pg>>

rows == <<rows_adresse, rows_arrete, rows_notifie, rows_parcelle>>

vars == <<fps, i, pc, err, out_files, rows, doc_data, locals, parsed, called>>

\* ------------------------------------------------------------------------
\* Helpers.
\* ------------------------------------------------------------------------

\* An empty dict.
EmptyDict == [k \in {} |-> None]

\* a | b of two dicts: the keys of b win.
Merge(a, b) == b @@ a

\* d[k] = v if k is not yet a key of d.
SetIfAbsent(d, k, v) == IF k \in DOMAIN d THEN d ELSE d @@ (k :> v)

\* The orders in which the elements of a set can be listed.
Orders(S) ==
    {s \in [1..Cardinality(S) -> S] :
        \A a, b \in 1..Cardinality(S) : a # b => s[a] # s[b]}

\* Name and path of the i-th PDF.
FnPdf(k) == "arrete_" \o ToString(k) \o ".pdf"

FpPdf(k) == "in_dir_pdf/" \o FnPdf(k)

\* The date of the run.
DateMaj == "01/11/2026"

NoNotifies == [proprios |-> {}, syndics |-> {}, gests |-> {}]

\* ------------------------------------------------------------------------
\* extract_adresses_commune
\* ------------------------------------------------------------------------

\* The address of a zone with "ad_brute" and without the "adr_" prefixes.
AdresseDeZone(adresse_brute, x) ==
    [ad_brute |-> adresse_brute, num |-> x.adr_num, ind |-> x.adr_ind,
     voie |-> x.adr_voie, compl |-> x.adr_compl, cpostal |-> x.adr_cpostal,
     ville |-> x.adr_ville]

\* Mutant of ErrCodeInsee: an INSEE code that is not found raises too.
ErrCodeInseeNone(ci) ==
    IF ci \in {"AssertionError", None} THEN "AssertionError" ELSE None

\* What an AssertionError of get_codeinsee does: it is raised again.
ErrCodeInsee(ci) == IF ci = "AssertionError" THEN "AssertionError" ELSE None

\* Mutant of ErrAdresse: the failure is swallowed.
ErrAdresseSwallowed(cp, ville) == None

\* What a failure of create_adresse_normalisee does: nothing catches it.
ErrAdresse(cp, ville) ==
    IF AdresseCoherente(cp, ville) THEN None ELSE "create_adresse_normalisee"

\* One turn of the loop on the addresses: the address filled in, or the
\* exception raised.
ResoudreAdresse(a, commune_maire) ==
    LET ville == determine_commune(a.ville, commune_maire)
        ci    == get_codeinsee(ville, a.cpostal)
        cp    == IF a.cpostal = None THEN get_codepostal(ville, ci)
                                     ELSE a.cpostal
    IN  IF ErrCodeInsee(ci) # None
        THEN [err |-> ErrCodeInsee(ci), adresse |-> a]
        ELSE IF ErrAdresse(cp, ville) # None
        THEN [err |-> ErrAdresse(cp, ville), adresse |-> a]
        ELSE [err |-> None,
              adresse |->
                [ad_brute |-> a.ad_brute, num |-> a.num, ind |-> a.ind,
                 voie |-> a.voie, compl |-> a.compl,
                 cpostal |-> cp, ville |-> ville,
                 adresse |-> create_adresse_normalisee(
                                 a.num, a.ind, a.voie, a.compl, cp, ville),
                 codeinsee |-> ci]]

\* The addresses of the first zone of the page and their commune; err is the
\* exception of the first address that raises one.
extract_adresses_commune(pg_txt_body, commune_maire) ==
    LET adresses_brutes == pg_txt_body.adr
    IN  IF adresses_brutes = <<>>
        THEN [err |-> None, adresses |-> <<>>]
        ELSE
          LET adr0 == adresses_brutes[1]
              res  == [k \in 1..Len(adr0.adresses) |->
                         ResoudreAdresse(
                             AdresseDeZone(adr0.adresse_brute, adr0.adresses[k]),
                             commune_maire)]
              bad  == {k \in 1..Len(res) : res[k].err # None}
          IN  IF bad = {}
              THEN [err |-> None,
                    adresses |-> [k \in 1..Len(res) |-> res[k].adresse]]
              ELSE [err |-> res[CHOOSE k \in bad : \A m \in bad : k <= m].err,
                    adresses |-> <<>>]

\* ------------------------------------------------------------------------
\* parse_arrete
\* ------------------------------------------------------------------------

\* Mutant of AnyPage: the pages are counted, not looked at.
AnyPageByCount(pgs) == Len(pgs) > 0

\* any(pages): some page has text.
AnyPage(pgs) == \E k \in 1..Len(pgs) : pgs[k].txt # ""

\* The order record of a document of which nothing was read.
ArreteMinimal(k) == [pdf |-> FnPdf(k), url |-> FpPdf(k)]

\* The pages of "accuse de reception".
PagesAr(pgs) == {k \in 1..Len(pgs) : pgs[k].txt = "AR"}

\* filt_pages: the pages to skip are replaced by the empty string.
FiltPages(pgs) ==
    [k \in 1..Len(pgs) |-> IF k \in PagesAr(pgs) THEN PgVide ELSE pgs[k]]

\* parse_arrete_pages: body and spans of every page; nothing on an empty one.
parse_arrete_pages(filt_pages) ==
    [k \in 1..Len(filt_pages) |->
        IF filt_pages[k].txt = ""
        THEN [body |-> CorpsVide, content |-> <<>>]
        ELSE [body |-> filt_pages[k].body, content |-> filt_pages[k].content]]

\* pages_cont: the spans of all the pages, with the number of their page.
RECURSIVE PagesCont(_, _)
PagesCont(dc, n) ==
    IF n = 0 THEN <<>>
    ELSE PagesCont(dc, n - 1)
            \o [k \in 1..Len(dc[n].content) |->
                    Merge([page_num |-> n], dc[n].content[k])]

\* The texts of the spans of a type.
SpansOfType(pages_cont, typ) ==
    LET sel == SelectSeq(pages_cont, LAMBDA x : x.span_typ = typ)
    IN  [k \in 1..Len(sel) |-> sel[k].span_txt]

\* Mutant of Premier: the last one.
Dernier(xs) == xs[Len(xs)]

\* xs[0]
Premier(xs) == xs[1]

\* arretes after the scalar fields were read in the spans.
ArretesScalaires(pages_cont) ==
    LET arr_dates == [k \in 1..Len(SpansOfType(pages_cont, "arr_date")) |->
                        process_date_brute(SpansOfType(pages_cont, "arr_date")[k])]
        arr_nums  == SpansOfType(pages_cont, "num_arr")
        arr_noms  == SpansOfType(pages_cont, "nom_arr")
        d1 == IF arr_dates # <<>>
              THEN [date |-> normalize_string(Premier(arr_dates))]
              ELSE EmptyDict
        d2 == IF arr_nums # <<>>
              THEN Merge(d1, [num_arr |-> normalize_string(Premier(arr_nums))])
              ELSE d1
        d3 == IF arr_noms # <<>>
              THEN Merge(d2, [nom_arr |-> normalize_string(Premier(arr_noms))])
              ELSE d2
    IN  d3

\* The commune in the mentions of the authority: the first one, normalized.
CommuneMaire(pages_cont) ==
    LET adrs == SpansOfType(pages_cont, "adr_ville")
    IN  IF adrs = <<>> THEN None ELSE normalize_string(adrs[1])


\* The detectors: what they find in the body of a page.
get_adr_doc(body) == body.adr

get_classe(body) == body.classe

get_urgence(body) == body.urgence

get_demo(body) == body.demo

get_int_hab(body) == body.int_hab

get_equ_com(body) == body.equ_com

get_proprio(body) == body.proprio

get_syndic(body) == body.syndic

get_gest(body) == body.gest

get_parcelle(body) == body.parcelle

\* The information on the order read on a page: every key is set once.
PageArretes(arr, body, k, ci) ==
    LET a1 == SetIfAbsent(arr, "classe", get_classe(body))
        a2 == SetIfAbsent(a1, "urgence", get_urgence(body))
        a3 == SetIfAbsent(a2, "demo", get_demo(body))
        a4 == SetIfAbsent(a3, "int_hab", get_int_hab(body))
        a5 == SetIfAbsent(a4, "equ_com", get_equ_com(body))
        a6 == SetIfAbsent(a5, "pdf", FnPdf(k))
        a7 == SetIfAbsent(a6, "url", FpPdf(k))
        a8 == SetIfAbsent(a7, "codeinsee", ci)
    IN  a8

\* The detectors of the order that a page calls.
ArretesCalls(arr) ==
    {d \in {"classe", "urgence", "demo", "int_hab", "equ_com"} :
        d \notin DOMAIN arr}

\* Mutant of AjouterNotifie: the first one found freezes the field.
AjouterNotifieFrozen(ens, found) ==
    IF found # None /\ ens = {} THEN {normalize_string(found)} ELSE ens

\* A notified party found on a page is added to its set.
AjouterNotifie(ens, found) ==
    IF found # None THEN ens \cup {normalize_string(found)} ELSE ens

PageNotifies(notif, body) ==
    [proprios |-> AjouterNotifie(notif.proprios, get_proprio(body)),
     syndics  |-> AjouterNotifie(notif.syndics, get_syndic(body)),
     gests    |-> AjouterNotifie(notif.gests, get_gest(body))]

\* Mutant of PageParcelles: the parcel of a page is normalized with the
\* codes held before the addresses of the page were read.
PageParcellesBeforeAdr(parc, body, k, ci, cp) ==
    IF get_parcelle(body) # None
    THEN parc \cup {generate_refcadastrale_norm(
                        codeinsee, get_parcelle(body), FnPdf(k), cpostal)}
    ELSE parc

\* The parcel found on a page is added, normalized with the codes of the
\* document at this point.
PageParcelles(parc, body, k, ci, cp) ==
    IF get_parcelle(body) # None
    THEN parc \cup {generate_refcadastrale_norm(ci, get_parcelle(body), FnPdf(k), cp)}
    ELSE parc

\* Mutant of ArretesFinal: no fallback.
ArretesFinalAsIs(arr, k) == arr

\* arretes at the end: pdf and url alone if it is still empty.
ArretesFinal(arr, k) == IF arr = EmptyDict THEN ArreteMinimal(k) ELSE arr

\* list(s)[0] if s else None
PremierOuNone(s) == IF s = {} THEN {None} ELSE s

\* Mutant of IsFile: the text file is not looked for.
IsFileAlways(f) == TRUE

\* fp_ntxt.is_file()
IsFile(f) == f.has_txt

\* The values of the variables of parse_arrete outside a call.
NoLocals ==
    /\ pages' = <<>>
    /\ doc_content' = <<>>
    /\ adr_commune_maire' = None
    /\ adresses' = <<>>
    /\ arretes' = EmptyDict
    /\ notifies' = NoNotifies
    /\ parcelles' = {}
    /\ codeinsee' = None
    /\ cpostal' = None
    /\ pg' = 1

\* ------------------------------------------------------------------------
\* Actions.
\* ------------------------------------------------------------------------

\* process_files: the next PDF has a text file; parse_arrete is called.
NextFile ==
    /\ pc = "loop"
    /\ i <= Len(fps)
    /\ IsFile(fps[i])
    /\ pc' = "parse"
    /\ parsed' = parsed \cup {i}
    /\ UNCHANGED <<fps, i, err, out_files, rows, doc_data, locals, called>>

\* process_files: the next PDF has no text file.
MissingTxt ==
    /\ pc = "loop"
    /\ i <= Len(fps)
    /\ ~IsFile(fps[i])
    /\ pc' = "raised"
    /\ err' = "ValueError"
    /\ UNCHANGED <<fps, i, out_files, rows, doc_data, locals, parsed, called>>

\* parse_arrete, up to the loop on the pages.
ParseStart ==
    /\ pc = "parse"
    /\ pages' = fps[i].pages
    /\ \/ /\ ~AnyPage(pages')
          /\ doc_data' = <<[adresses |-> <<>>,
                            arretes |-> <<ArreteMinimal(i)>>,
                            notifies |-> <<>>,
                            parcelles |-> <<>>]>>
          /\ pc' = "append"
          /\ called' = {}
          /\ UNCHANGED <<doc_content, adr_commune_maire, adresses, arretes,
                         notifies, parcelles, codeinsee, cpostal, pg>>
       \/ /\ AnyPage(pages')
          /\ doc_content' = parse_arrete_pages(FiltPages(pages'))
          /\ called' = {"parse_arrete_pages"}
          /\ LET pages_cont == PagesCont(doc_content', Len(doc_content'))
             IN  /\ arretes' = ArretesScalaires(pages_cont)
                 /\ adr_commune_maire' = CommuneMaire(pages_cont)
          /\ adresses' = <<>>
          /\ notifies' = NoNotifies
          /\ parcelles' = {}
          /\ codeinsee' = None
          /\ cpostal' = None
          /\ pg' = 1
          /\ pc' = "page"
          /\ UNCHANGED doc_data
    /\ UNCHANGED <<fps, i, err, out_files, rows, parsed>>

\* parse_arrete: one turn of the loop on the bodies of the pages.
ParsePage ==
    /\ pc = "page"
    /\ pg <= Len(doc_content)
    /\ LET pg_txt_body == doc_content[pg].body
           res == IF adresses = <<>>
                  THEN extract_adresses_commune(pg_txt_body, adr_commune_maire)
                  ELSE [err |-> None, adresses |-> <<>>]
           found == adresses = <<>> /\ res.adresses # <<>>
           ci == IF found THEN res.adresses[1].codeinsee ELSE codeinsee
           cp == IF found THEN res.adresses[1].cpostal ELSE cpostal
       IN  \/ /\ ~pg_txt_body.text
              /\ pg' = pg + 1
              /\ UNCHANGED <<pc, err, adresses, arretes, notifies, parcelles,
                             codeinsee, cpostal, called>>
           \/ /\ pg_txt_body.text
              /\ res.err # None
              /\ pc' = "raised"
              /\ err' = res.err
              /\ called' = called \cup {"get_adr_doc"}
              /\ UNCHANGED <<adresses, arretes, notifies, parcelles,
                             codeinsee, cpostal, pg>>
           \/ /\ pg_txt_body.text
              /\ res.err = None
              /\ adresses' = adresses \o res.adresses
              /\ codeinsee' = ci
              /\ cpostal' = cp
              /\ arretes' = PageArretes(arretes, pg_txt_body, i, ci)
              /\ notifies' = PageNotifies(notifies, pg_txt_body)
              /\ parcelles' = PageParcelles(parcelles, pg_txt_body, i, ci, cp)
              /\ called' = called
                    \cup (IF adresses = <<>> THEN {"get_adr_doc"} ELSE {})
                    \cup {"get_" \o d : d \in ArretesCalls(arretes)}
                    \cup {"get_proprio", "get_syndic", "get_gest", "get_parcelle"}
              /\ pg' = pg + 1
              /\ UNCHANGED <<pc, err>>
    /\ UNCHANGED <<fps, i, out_files, rows, doc_data, pages, doc_content,
                   adr_commune_maire, parsed>>

\* parse_arrete, after the loop: doc_data is built and returned.
ParseEnd ==
    /\ pc = "page"
    /\ pg > Len(doc_content)
    /\ \E id_proprio \in PremierOuNone(notifies.proprios),
          id_syndic \in PremierOuNone(notifies.syndics),
          id_gest \in PremierOuNone(notifies.gests),
          refs \in Orders(parcelles) :
            doc_data' =
              <<[adresses |-> adresses,
                 arretes |-> <<ArretesFinal(arretes, i)>>,
                 notifies |-> <<[id_proprio |-> id_proprio,
                                 proprio |-> "TODO_proprio",
                                 id_syndic |-> id_syndic,
                                 syndic |-> "TODO_syndic",
                                 id_gest |-> id_gest,
                                 gest |-> "TODO_gest",
                                 codeinsee |-> codeinsee]>>,
                 parcelles |-> [k \in 1..Len(refs) |->
                                  [ref_cad |-> refs[k], codeinsee |-> codeinsee]]]>>
    /\ pc' = "append"
    /\ UNCHANGED <<fps, i, err, out_files, rows, locals, parsed, called>>

\* The rows of a table for the document: idu and datemaj are added.
Rows(xs, idu) ==
    [k \in 1..Len(xs) |->
        Merge(Merge([idu |-> idu], xs[k]), [datemaj |-> DateMaj])]

\* process_files: the data of the document go into the four tables.
AppendRows ==
    /\ pc = "append"
    /\ LET idu == "id_000" \o ToString(i - 1)
           d == doc_data[1]
       IN  /\ rows_adresse' = rows_adresse \o Rows(d.adresses, idu)
           /\ rows_arrete' = rows_arrete \o Rows(d.arretes, idu)
           /\ rows_notifie' = rows_notifie \o Rows(d.notifies, idu)
           /\ rows_parcelle' = rows_parcelle \o Rows(d.parcelles, idu)
    /\ i' = i + 1
    /\ pc' = "loop"
    /\ doc_data' = <<>>
    /\ NoLocals
    /\ called' = {}
    /\ UNCHANGED <<fps, err, out_files, parsed>>

\* process_files, after the loop: the four CSV files are written.
WriteCsv ==
    /\ pc = "loop"
    /\ i > Len(fps)
    /\ out_files' = <<[adresse |-> rows_adresse, arrete |-> rows_arrete,
                       notifie |-> rows_notifie, parcelle |-> rows_parcelle]>>
    /\ pc' = "done"
    /\ UNCHANGED <<fps, i, err, rows, doc_data, locals, parsed, called>>

Next ==
    \/ NextFile
    \/ MissingTxt
    \/ ParseStart
    \/ ParsePage
    \/ ParseEnd
    \/ AppendRows
    \/ WriteCsv

\* The state when process_files starts on the files fs.
Start(fs) ==
    /\ fps = fs
    /\ i = 1
    /\ pc = "loop"
    /\ err = None
    /\ out_files = <<>>
    /\ rows_adresse = <<>>
    /\ rows_arrete = <<>>
    /\ rows_notifie = <<>>
    /\ rows_parcelle = <<>>
    /\ doc_data = <<>>
    /\ pages = <<>>
    /\ doc_content = <<>>
    /\ adr_commune_maire = None
    /\ adresses = <<>>
    /\ arretes = EmptyDict
    /\ notifies = NoNotifies
    /\ parcelles = {}
    /\ codeinsee = None
    /\ cpostal = None
    /\ pg = 1
    /\ parsed = {}
    /\ called = {}

\* One PDF, with any text of at most MaxPages pages, or without text file.
Init == \E f \in FilesOf(DocsUpTo(MaxPages)) : Start(<<f>>)

Spec == Init /\ [][Next]_vars

\* At most MaxFiles PDF, with the texts of BatchDocs.
InitBatch ==
    \E n \in 0..MaxFiles : \E fs \in [1..n -> FilesOf(BatchDocs)] : Start(fs)

SpecBatch == InitBatch /\ [][Next]_vars


\* ------------------------------------------------------------------------
\* Properties.  They are stated on the text of the document (fps) and on
\* what parse_arrete returns, not on the steps in between.
\* ------------------------------------------------------------------------

\* The pages of the document being processed.
DocPages == fps[i].pages

\* parse_arrete has returned.
Returned == pc = "append"

\* The order record returned.
DocArrete == doc_data[1].arretes[1]

\* No page carries any text.
SansTexte(pgs) == \A k \in 1..Len(pgs) : pgs[k].txt = ""

\* The pages that are neither empty nor suppressed and have a body.
TextPages(pgs) ==
    {p \in 1..Len(pgs) : pgs[p].txt \notin {"", "AR"} /\ pgs[p].body.text}

Lowest(S) == CHOOSE p \in S : \A q \in S : p <= q

\* The texts of the spans of a type on the first n pages, the empty and the
\* suppressed pages left out, in page order.
RECURSIVE SpanTexts(_, _, _)
SpanTexts(pgs, typ, n) ==
    IF n = 0 THEN <<>>
    ELSE LET c == IF pgs[n].txt \in {"", "AR"} THEN <<>> ELSE pgs[n].content
             sel == SelectSeq(c, LAMBDA x : x.span_typ = typ)
         IN  SpanTexts(pgs, typ, n - 1) \o [k \in 1..Len(sel) |-> sel[k].span_txt]

\* The hint on the commune that the spans of the document give.
HintOf(pgs) ==
    LET t == SpanTexts(pgs, "adr_ville", Len(pgs))
    IN  IF t = <<>> THEN None ELSE normalize_string(t[1])

ClasseFields == {"classe", "urgence", "demo", "int_hab", "equ_com"}

\* C1 (as claimed): each of classe, urgence, demo, int_hab, equ_com of the
\* order record is the result of its detector on the first page, in page
\* order, where the detector finds something; a page with text where it finds
\* nothing leaves the field to the later pages.
C1_FirstDetectionKept ==
    (Returned /\ ~SansTexte(DocPages)) =>
        \A f \in ClasseFields :
            LET P == {p \in TextPages(DocPages) : DocPages[p].body[f] # None}
            IN  IF P = {}
                THEN f \notin DOMAIN DocArrete \/ DocArrete[f] = None
                ELSE /\ f \in DOMAIN DocArrete
                     /\ DocArrete[f] = DocPages[Lowest(P)].body[f]

\* C2 (as claimed): the addresses returned are those of the first zone of
\* the lowest page, neither empty nor suppressed, on which get_adr_doc finds
\* a zone; no other page gives an address.
C2_FirstZonePageOnly ==
    (Returned /\ ~SansTexte(DocPages)) =>
        LET Z == {p \in TextPages(DocPages) : DocPages[p].body.adr # <<>>}
        IN  IF Z = {}
            THEN doc_data[1].adresses = <<>>
            ELSE doc_data[1].adresses =
                    extract_adresses_commune(DocPages[Lowest(Z)].body,
                                             HintOf(DocPages)).adresses

\* C3: for a document of which no page carries text, parse_arrete does not
\* raise and returns one order record with pdf and url alone and empty lists
\* of addresses, notified parties and parcels, without calling the classifier
\* nor any detector.
C3_NoTextMinimalRecord ==
    (i <= Len(fps) /\ fps[i].has_txt /\ SansTexte(DocPages)) =>
        /\ pc \in {"loop", "parse", "append"}
        /\ Returned =>
            /\ doc_data = <<[adresses |-> <<>>,
                             arretes |-> <<[pdf |-> FnPdf(i), url |-> FpPdf(i)]>>,
                             notifies |-> <<>>,
                             parcelles |-> <<>>]>>
            /\ called = {}

C3_Witness ==
    /\ Returned
    /\ Len(DocPages) = MaxPages
    /\ SansTexte(DocPages)
    /\ DOMAIN DocArrete = {"pdf", "url"}
    /\ doc_data[1].notifies = <<>>

\* C4 (as claimed): when none of date, num_arr, nom_arr was populated, the
\* order record returned carries pdf and url and no other field.
C4_MinimalWithoutScalars ==
    (Returned /\ DOMAIN DocArrete \cap {"date", "num_arr", "nom_arr"} = {}) =>
        DOMAIN DocArrete = {"pdf", "url"}

\* C4 (amended): when none of date, num_arr, nom_arr was populated and no
\* page had a body with text, so that arretes is still empty after the loop,
\* the order record returned carries pdf and url and no other field.
C4_MinimalWhenStillEmpty ==
    (/\ Returned
     /\ DOMAIN arretes \cap {"date", "num_arr", "nom_arr"} = {}
     /\ TextPages(DocPages) = {}) =>
        DocArrete = [pdf |-> FnPdf(i), url |-> FpPdf(i)]

C4_Witness ==
    /\ Returned
    /\ "parse_arrete_pages" \in called
    /\ arretes = EmptyDict
    /\ TextPages(DocPages) = {}
    /\ DocArrete = [pdf |-> FnPdf(i), url |-> FpPdf(i)]

\* An address of a zone on which get_codeinsee fails its assertion or
\* create_adresse_normalisee fails.
HardFailure(x, hint) ==
    LET ville == determine_commune(x.adr_ville, hint)
        ci == get_codeinsee(ville, x.adr_cpostal)
        cp == IF x.adr_cpostal = None THEN get_codepostal(ville, ci)
                                      ELSE x.adr_cpostal
    IN  ci = "AssertionError" \/ ~AdresseCoherente(cp, ville)

\* C5 (as claimed): whatever determine_commune, get_codeinsee and
\* get_codepostal do on an address, the document is not aborted.
C5_LookupNeverAborts == err # "AssertionError"

\* C5 (amended): a lookup that finds nothing (no commune, no INSEE code, no
\* postal code) does not abort the document; parse_arrete is only aborted
\* when get_codeinsee fails its assertion, which is raised again, or
\* create_adresse_normalisee fails, on an address of the first zone of the
\* page being read.
C5_OnlyHardFailuresAbort ==
    (pc = "raised" /\ err # "ValueError") =>
        /\ pg \in TextPages(DocPages)
        /\ DocPages[pg].body.adr # <<>>
        /\ \E k \in 1..Len(DocPages[pg].body.adr[1].adresses) :
              HardFailure(DocPages[pg].body.adr[1].adresses[k], HintOf(DocPages))

C5_Witness ==
    /\ Returned
    /\ doc_data[1].adresses # <<>>
    /\ doc_data[1].adresses[1].ville = None
    /\ doc_data[1].adresses[1].codeinsee = None
    /\ doc_data[1].adresses[1].cpostal = None

\* C6 (as claimed): when the text file of a PDF is missing, the error is
\* raised before parse_arrete was called on any document of the batch.
C6_RaisedBeforeAnyParse == (err = "ValueError") => parsed = {}

\* C6 (amended): parse_arrete is never called on a PDF without text file;
\* the error is raised when the loop reaches this PDF, before any output
\* file is written, and after parse_arrete was called on every PDF that
\* precedes it.
C6_RaisedBeforeItsParse ==
    /\ \A j \in parsed : fps[j].has_txt
    /\ (err = "ValueError") =>
        /\ ~fps[i].has_txt
        /\ parsed = 1..(i - 1)
        /\ out_files = <<>>

C6_Witness ==
    /\ err = "ValueError"
    /\ i = MaxFiles
    /\ parsed = 1..(i - 1)
    /\ Len(rows_arrete) = i - 1

\* The normalized results of a detector of notified parties on the pages
\* that are neither empty nor suppressed.
NotifiesOf(pgs, f) ==
    {normalize_string(pgs[p].body[f]) :
        p \in {q \in TextPages(pgs) : pgs[q].body[f] # None}}

\* C7: after the loop on the pages, proprios, syndics and gests are the sets
\* of the normalized results of their detectors on all the pages that are
\* neither empty nor suppressed, and the id returned for each is an element
\* of its set, or None exactly when the set is empty.
C7_NotifiesAreSets ==
    (\/ pc = "page" /\ pg > Len(doc_content)
     \/ Returned /\ ~SansTexte(DocPages)) =>
        /\ notifies.proprios = NotifiesOf(DocPages, "proprio")
        /\ notifies.syndics = NotifiesOf(DocPages, "syndic")
        /\ notifies.gests = NotifiesOf(DocPages, "gest")
        /\ Returned =>
            LET n == doc_data[1].notifies[1]
                ok(id, S) == IF S = {} THEN id = None ELSE id \in S
            IN  /\ Len(doc_data[1].notifies) = 1
                /\ ok(n.id_proprio, NotifiesOf(DocPages, "proprio"))
                /\ ok(n.id_syndic, NotifiesOf(DocPages, "syndic"))
                /\ ok(n.id_gest, NotifiesOf(DocPages, "gest"))

C7_Witness ==
    /\ Returned
    /\ Len(DocPages) = 2
    /\ TextPages(DocPages) = {1, 2}
    /\ DocPages[1].body.proprio # None
    /\ DocPages[2].body.proprio # None
    /\ DocPages[1].body.proprio # DocPages[2].body.proprio
    /\ Cardinality(notifies.proprios) = 1
    /\ doc_data[1].notifies[1].id_proprio \in notifies.proprios

\* The pages on which a parcel is found.
ParcellePages(pgs) ==
    {p \in TextPages(pgs) : pgs[p].body.parcelle # None}

\* The pages that give addresses: their first zone has some.
AdressePages(pgs) ==
    {p \in TextPages(pgs) :
        /\ pgs[p].body.adr # <<>>
        /\ pgs[p].body.adr[1].adresses # <<>>}

\* The normalized reference of the parcel of page p, with the codes of the
\* first address returned from the first page that gives addresses on.
RefAt(pgs, p, adrs, k) ==
    LET known == AdressePages(pgs) # {} /\ p >= Lowest(AdressePages(pgs))
    IN  generate_refcadastrale_norm(
            IF known THEN adrs[1].codeinsee ELSE None,
            pgs[p].body.parcelle, FnPdf(k),
            IF known THEN adrs[1].cpostal ELSE None)

\* C8: the parcel rows returned are one row for each distinct normalized
\* reference of the pages where get_parcelle finds one, normalized with no
\* code before the first page that gives a resolved address, and with the
\* codes of the first resolved address on this page and after it.
C8_ParcelRows ==
    (Returned /\ ~SansTexte(DocPages)) =>
        LET rs == doc_data[1].parcelles
            expected == {RefAt(DocPages, p, doc_data[1].adresses, i) :
                            p \in ParcellePages(DocPages)}
        IN  /\ {rs[k].ref_cad : k \in 1..Len(rs)} = expected
            /\ Len(rs) = Cardinality(expected)

C8_Witness ==
    /\ Returned
    /\ ParcellePages(DocPages) = {1, 2}
    /\ AdressePages(DocPages) = {2}
    /\ RefBrute(DocPages[1].body.parcelle) = RefBrute(DocPages[2].body.parcelle)
    /\ doc_data[1].adresses[1].codeinsee # None
    /\ Len(doc_data[1].parcelles) = 2

\* C9: date, num_arr and nom_arr of the order record are the first span of
\* their type (arr_date, num_arr, nom_arr) in the spans of the pages taken in
\* page order, normalized (the date after process_date_brute), whatever the
\* other spans and the bodies are; the field is absent exactly when the
\* document has no span of the type.
C9_FirstSpanWins ==
    Returned =>
        LET dates == SpanTexts(DocPages, "arr_date", Len(DocPages))
            nums  == SpanTexts(DocPages, "num_arr", Len(DocPages))
            noms  == SpanTexts(DocPages, "nom_arr", Len(DocPages))
        IN  /\ IF dates = <<>> THEN "date" \notin DOMAIN DocArrete
               ELSE /\ "date" \in DOMAIN DocArrete
                    /\ DocArrete.date = normalize_string(process_date_brute(dates[1]))
            /\ IF nums = <<>> THEN "num_arr" \notin DOMAIN DocArrete
               ELSE /\ "num_arr" \in DOMAIN DocArrete
                    /\ DocArrete.num_arr = normalize_string(nums[1])
            /\ IF noms = <<>> THEN "nom_arr" \notin DOMAIN DocArrete
               ELSE /\ "nom_arr" \in DOMAIN DocArrete
                    /\ DocArrete.nom_arr = normalize_string(noms[1])

C9_Witness ==
    /\ Returned
    /\ Len(SpanTexts(DocPages, "arr_date", Len(DocPages))) = 2
    /\ SpanTexts(DocPages, "arr_date", Len(DocPages))[1]
          # SpanTexts(DocPages, "arr_date", Len(DocPages))[2]
    /\ SpanTexts(DocPages, "arr_date", 1) # <<>>
    /\ DocPages[1].content[1].span_typ # "arr_date"
    /\ DocArrete.date
          = normalize_string(process_date_brute(
                SpanTexts(DocPages, "arr_date", Len(DocPages))[1]))
    /\ "nom_arr" \in DOMAIN DocArrete

\* create_adresse_normalisee fails on an address of the zone that the
\* document resolves.
CreateFails(pgs) ==
    /\ AdressePages(pgs) # {}
    /\ LET zone == pgs[Lowest(AdressePages(pgs))].body.adr[1].adresses
       IN  \E k \in 1..Len(zone) :
              /\ HardFailure(zone[k], HintOf(pgs))
              /\ get_codeinsee(determine_commune(zone[k].adr_ville, HintOf(pgs)),
                               zone[k].adr_cpostal) # "AssertionError"
              /\ \A m \in 1..(k - 1) : ~HardFailure(zone[m], HintOf(pgs))

\* The rows of the j-th PDF in a table.
RowsOf(table, j) ==
    {k \in 1..Len(table) : table[k].idu = "id_000" \o ToString(j - 1)}

\* C10: when create_adresse_normalisee fails on an address of the resolved
\* zone of a document, the failure goes up through extract_adresses_commune,
\* parse_arrete and process_files: parse_arrete returns no record for the
\* document and none of the four tables gets a row of it.
C10_CreateFailurePropagates ==
    /\ \A j \in 1..Len(fps) :
          (fps[j].has_txt /\ CreateFails(fps[j].pages)) =>
              /\ RowsOf(rows_adresse, j) = {}
              /\ RowsOf(rows_arrete, j) = {}
              /\ RowsOf(rows_notifie, j) = {}
              /\ RowsOf(rows_parcelle, j) = {}
              /\ j = i => doc_data = <<>> /\ pc \in {"loop", "parse", "page", "raised"}
              /\ i <= j
    /\ (err = "create_adresse_normalisee") =>
          /\ pc = "raised"
          /\ CreateFails(DocPages)
          /\ doc_data = <<>>
          /\ out_files = <<>>

C10_Witness ==
    /\ err = "create_adresse_normalisee"
    /\ i = MaxFiles
    /\ Len(rows_arrete) = i - 1
    /\ RowsOf(rows_arrete, i) = {}
    /\ adresses = <<>>
    /\ parcelles # {}

\* C11 (as claimed): when parse_arrete returns at least one address, the
\* codeinsee of the order record, of the row of notified parties and of every
\* parcel row is the codeinsee of the first address returned, whatever the
\* page of the address.
C11_InseeOfFirstAdresse ==
    (Returned /\ doc_data[1].adresses # <<>>) =>
        LET ci == doc_data[1].adresses[1].codeinsee
            rs == doc_data[1].parcelles
        IN  /\ "codeinsee" \in DOMAIN DocArrete
            /\ DocArrete.codeinsee = ci
            /\ doc_data[1].notifies[1].codeinsee = ci
            /\ \A k \in 1..Len(rs) : rs[k].codeinsee = ci

\* C11, the part that holds: the row of notified parties and the parcel rows.
C11_RowsInsee ==
    (Returned /\ doc_data[1].adresses # <<>>) =>
        LET ci == doc_data[1].adresses[1].codeinsee
            rs == doc_data[1].parcelles
        IN  /\ doc_data[1].notifies[1].codeinsee = ci
            /\ \A k \in 1..Len(rs) : rs[k].codeinsee = ci

=============================================================================
